---------------------------- MODULE Spec2Model ----------------------------
(***************************************************************************)
(* Model of core/jni/magiskhide/proc_monitor.c: the MagiskHide process     *)
(* monitor.  One thread (proc_monitor) reads am_proc_start records from a  *)
(* pipe, matches the process name against hide_list, waits for the new     *)
(* process to leave the zygote mount namespace, stops it, removes the      *)
(* marker links and forks a hide_daemon process that unmounts inside the   *)
(* target's namespace, resumes the target and reports back with HIDE_DONE. *)
(* The handlers hide_done and term_thread run on the monitor thread and    *)
(* may interrupt it between any two statements.                            *)
(*                                                                         *)
(* C strings are sequences of one-character strings, so that strchr,       *)
(* strstr, strcmp and sscanf are computed the way libc computes them.      *)
(***************************************************************************)
EXTENDS Integers, Sequences, FiniteSets, TLC

(***************************************************************************)
(* Bounds of the model.                                                    *)
(***************************************************************************)
\* number of records the monitor reads from the pipe
MaxNotif == 2

(***************************************************************************)
(* Text: the records written to the pipe and the names in hide_list.       *)
(***************************************************************************)
Rec7 ==
    <<"[","1","2","3",","," ","1","0","0","0",","," ","5","5","5","5",",",
      " ","2",","," ","1",","," ","1","0",","," ","c","o","m",".","e","x",
      "a","m","p","l","e",".","a","p","p","]">>

Rec5 ==
    <<"[","1","2","3",","," ","1","0","0","0",","," ","5","5","5","5",",",
      " ","1",","," ","c","o","m",".","e","x","a","m","p","l","e",".","a",
      "p","p","]">>

RecStart6 ==
    <<"s",":"," ","[","0",",","5","5","5","5",",","1","0","0","8","5",",",
      "c","o","m",".","e","x","a","m","p","l","e",".","a","p","p",",","a",
      ",","b","]">>

RecStart7 ==
    <<"[","0",",","5","5","5","5",",","1","0","0","8","5",",","0",",","c",
      "o","m",".","e","x","a","m","p","l","e",".","A","p","p",",","a",",",
      "b","]">>

RecNoBracket ==
    <<"0",",","5","5","5","5">>

RecShort ==
    <<"[","0",",","5","5","5","5","]">>

AppName ==
    <<"c","o","m",".","e","x","a","m","p","l","e",".","a","p","p">>

AppNameUpper ==
    <<"c","o","m",".","e","x","a","m","p","l","e",".","A","p","p">>

NameOne ==
    <<"1">>

\* The records the logcat monitor can deliver; `log` holds an index into it,
\* 0 for NULL.
LogLines == <<Rec7, Rec5, RecStart6, RecStart7, RecNoBracket, RecShort>>

NULL == 0

(***************************************************************************)
(* libc string functions, on sequences of characters.                      *)
(***************************************************************************)
Digits == {"0","1","2","3","4","5","6","7","8","9"}

DigitVal(c) ==
    CASE c = "0" -> 0 [] c = "1" -> 1 [] c = "2" -> 2 [] c = "3" -> 3
      [] c = "4" -> 4 [] c = "5" -> 5 [] c = "6" -> 6 [] c = "7" -> 7
      [] c = "8" -> 8 [] c = "9" -> 9

IsSpace(c) == c = " "

\* strchr(s + from - 1, c): index of the first c at or after `from`, NULL if
\* there is none.
RECURSIVE StrChr(_, _, _)
StrChr(s, c, from) ==
    IF from > Len(s) THEN NULL
    ELSE IF s[from] = c THEN from
    ELSE StrChr(s, c, from + 1)

\* strstr(hay, needle) != NULL
StrStr(hay, needle) ==
    \E i \in 1..(Len(hay) - Len(needle) + 1) :
        SubSeq(hay, i, i + Len(needle) - 1) = needle

UpperCase ==
    <<"A","B","C","D","E","F","G","H","I","J","K","L","M",
      "N","O","P","Q","R","S","T","U","V","W","X","Y","Z">>

LowerCase ==
    <<"a","b","c","d","e","f","g","h","i","j","k","l","m",
      "n","o","p","q","r","s","t","u","v","w","x","y","z">>

ToLower(c) ==
    IF \E i \in 1..26 : UpperCase[i] = c
    THEN LowerCase[CHOOSE i \in 1..26 : UpperCase[i] = c]
    ELSE c

\* What strcasecmp(a, b) would answer: 0 when the two strings are equal up to
\* the case of their letters.  The monitor does not use it.
StrCaseCmp(a, b) ==
    IF Len(a) = Len(b) /\ \A i \in 1..Len(a) : ToLower(a[i]) = ToLower(b[i])
    THEN 0 ELSE 1

\* strcmp(a, b): 0 exactly when the two strings are equal
StrCmp(a, b) ==
    IF Len(a) = Len(b) /\ \A i \in 1..Len(a) : a[i] = b[i] THEN 0 ELSE 1

\* first index >= p that holds no white space (Len(s)+1 at the end)
RECURSIVE SkipSpace(_, _)
SkipSpace(s, p) ==
    IF p <= Len(s) /\ IsSpace(s[p]) THEN SkipSpace(s, p + 1) ELSE p

\* first index >= p that holds no digit
RECURSIVE DigitsEnd(_, _)
DigitsEnd(s, p) ==
    IF p <= Len(s) /\ s[p] \in Digits THEN DigitsEnd(s, p + 1) ELSE p

\* first index >= p that holds white space or is past the end
RECURSIVE WordEnd(_, _)
WordEnd(s, p) ==
    IF p <= Len(s) /\ ~IsSpace(s[p]) THEN WordEnd(s, p + 1) ELSE p

\* value of the decimal digits s[a..b-1]
RECURSIVE DecValue(_, _, _)
DecValue(s, a, b) ==
    IF b <= a THEN 0 ELSE DecValue(s, a, b - 1) * 10 + DigitVal(s[b - 1])

Min(a, b) == IF a < b THEN a ELSE b

\* one %d conversion at p: white space is skipped, then an optional sign
\* and at least one digit are wanted
ScanInt(s, p) ==
    LET q  == SkipSpace(s, p)
        neg == q <= Len(s) /\ s[q] = "-"
        q2 == IF q <= Len(s) /\ s[q] \in {"-", "+"} THEN q + 1 ELSE q
        e  == DigitsEnd(s, q2)
    IN  IF e = q2
        THEN [ok |-> FALSE, eof |-> q > Len(s), val |-> 0, next |-> q]
        ELSE [ok |-> TRUE, eof |-> FALSE,
              val |-> IF neg THEN 0 - DecValue(s, q2, e) ELSE DecValue(s, q2, e),
              next |-> e]

\* one %<width>s conversion at p: white space is skipped, then up to
\* `width` characters that are not white space are taken
ScanStr(s, p, width) ==
    LET q == SkipSpace(s, p)
        e == Min(WordEnd(s, q), q + width)
    IN  IF e = q
        THEN [ok |-> FALSE, eof |-> q > Len(s), val |-> <<>>, next |-> q]
        ELSE [ok |-> TRUE, eof |-> FALSE, val |-> SubSeq(s, q, e - 1), next |-> e]

EOF_ == -1

\* sscanf(s + p - 1, fmt, &pid, processName) for a format made of the
\* directives "[" (literal), " " (white space), "%*d", "%d" and "%256s".
\* k is the directive reached, n the number of assignments made so far, and
\* conv tells whether a conversion has completed (EOF is returned for an
\* input failure before the first one).
RECURSIVE Scan(_, _, _, _, _, _, _, _)
Scan(s, p, fmt, k, n, conv, pidv, namev) ==
    LET stop(eof) == [ret |-> IF eof /\ ~conv THEN EOF_ ELSE n,
                      pid |-> pidv, name |-> namev]
    IN
    IF k > Len(fmt) THEN stop(FALSE)
    ELSE CASE fmt[k] = "[" ->
                IF p <= Len(s) /\ s[p] = "["
                THEN Scan(s, p + 1, fmt, k + 1, n, conv, pidv, namev)
                ELSE stop(p > Len(s))
           [] fmt[k] = " " ->
                Scan(s, SkipSpace(s, p), fmt, k + 1, n, conv, pidv, namev)
           [] fmt[k] = "%*d" ->
                LET r == ScanInt(s, p)
                IN  IF r.ok
                    THEN Scan(s, r.next, fmt, k + 1, n, TRUE, pidv, namev)
                    ELSE stop(r.eof)
           [] fmt[k] = "%d" ->
                LET r == ScanInt(s, p)
                IN  IF r.ok
                    THEN Scan(s, r.next, fmt, k + 1, n + 1, TRUE, r.val, namev)
                    ELSE stop(r.eof)
           [] fmt[k] = "%256s" ->
                LET r == ScanStr(s, p, 256)
                IN  IF r.ok
                    THEN Scan(s, r.next, fmt, k + 1, n + 1, TRUE, pidv, r.val)
                    ELSE stop(r.eof)

\* "[%*d %d %*d %*d %256s"
Fmt7 == <<"[", "%*d", " ", "%d", " ", "%*d", " ", "%*d", " ", "%256s">>

\* "[%*d %d %*d %256s"
Fmt6 == <<"[", "%*d", " ", "%d", " ", "%*d", " ", "%256s">>

Sscanf(s, p, fmt) == Scan(s, p, fmt, 1, 0, FALSE, 0, <<>>)

\* the while(1) loop of proc_monitor: every ',' from ss on becomes ' '
CommasToSpaces(s, ss) ==
    [i \in 1..Len(s) |-> IF i >= ss /\ s[i] = "," THEN " " ELSE s[i]]

\* and `comma` counts them
CommaCount(s, ss) == Cardinality({i \in ss..Len(s) : s[i] = ","})

\* A parser that knows the shorter layout only.  The monitor does not use it.
PickShortFormat(comma) == Fmt6

\* The layout is chosen by the number of commas.
PickFormat(comma) == IF comma = 6 THEN Fmt7 ELSE Fmt6

\* Lines 204-221 for a line that holds a '[': ret, pid and processName.
ParseRecord(line) ==
    LET ss == StrChr(line, "[", 1)
    IN  Sscanf(CommasToSpaces(line, ss), ss, PickFormat(CommaCount(line, ss)))

(***************************************************************************)
(* The mount table of a target's namespace (/proc/<pid>/mounts) and the    *)
(* patterns hide_daemon looks for in its lines.                            *)
(***************************************************************************)
MntCache ==
    <<"/","d","e","v","/","b","l","o","c","k","/","c"," ","/","c","a","c",
      "h","e"," ","e","x","t","4">>

MntSysBin ==
    <<"/","d","e","v","/","b","l","o","c","k","/","c"," ","/","s","y","s",
      "t","e","m","/","b"," ","e","x","t","4">>

MntTmpfs ==
    <<"t","m","p","f","s"," ","/","s","y","s","t","e","m","/","l"," ","t",
      "m","p","f","s">>

MntTmpfsSub ==
    <<"t","m","p","f","s"," ","/","s","y","s","t","e","m","/","l","/","x",
      " ","t","m","p","f","s">>

MntLoopSub ==
    <<"/","d","e","v","/","b","l","o","c","k","/","l","o","o","p","0"," ",
      "/","s","y","s","t","e","m","/","l","/","m"," ","e","x","t","4">>

MntLoop ==
    <<"/","d","e","v","/","b","l","o","c","k","/","l","o","o","p","1"," ",
      "/","m","a","g","i","s","k"," ","e","x","t","4">>

StrCacheMnt ==
    <<" ","/","c","a","c","h","e"," ">>

StrSystemDir ==
    <<" ","/","s","y","s","t","e","m","/">>

StrVendorDir ==
    <<" ","/","v","e","n","d","o","r","/">>

StrTmpfsSystem ==
    <<"t","m","p","f","s"," ","/","s","y","s","t","e","m">>

StrTmpfsVendor ==
    <<"t","m","p","f","s"," ","/","v","e","n","d","o","r">>

StrTmpfsSbin ==
    <<"t","m","p","f","s"," ","/","s","b","i","n">>

StrLoopDev ==
    <<"/","d","e","v","/","b","l","o","c","k","/","l","o","o","p">>

\* The lines of the table; a table is the sequence of the indices of the
\* lines it holds, in file order.
MountLines == <<MntCache, MntSysBin, MntTmpfs, MntTmpfsSub, MntLoopSub, MntLoop>>

\* what zygote's namespace holds when a process is forked from it
FullTable == <<1, 2, 3, 4, 5, 6>>

\* sscanf(line, "%256s", cache_block): the first word of the line
FirstWord(line) == ScanStr(line, 1, 256).val

\* sscanf(line, "%*s %4096s", buffer): the second word, the mount point
SecondWord(line) == ScanStr(line, ScanStr(line, 1, Len(line)).next, 4096).val

\* line 109: a mount of the cache block under /system/ or /vendor/
IsCacheMount(line, cblock) ==
    /\ StrStr(line, cblock)
    /\ (StrStr(line, StrSystemDir) \/ StrStr(line, StrVendorDir))

\* line 118: a tmpfs on /system, /vendor or /sbin
IsTmpfsMount(line) ==
    \/ StrStr(line, StrTmpfsSystem)
    \/ StrStr(line, StrTmpfsVendor)
    \/ StrStr(line, StrTmpfsSbin)

\* line 133: a loop device
IsLoopMount(line) == StrStr(line, StrLoopDev)

\* lines 96-101: the first word of the first line that holds " /cache ",
\* the empty string when no line does
RECURSIVE FindCacheBlock(_, _)
FindCacheBlock(list, k) ==
    IF k > Len(list) THEN <<>>
    ELSE IF StrStr(MountLines[list[k]], StrCacheMnt)
         THEN FirstWord(MountLines[list[k]])
         ELSE FindCacheBlock(list, k + 1)

\* mount point `sub` lies at or below mount point `mp`
AtOrBelow(sub, mp) ==
    \/ sub = mp
    \/ /\ Len(sub) > Len(mp)
       /\ SubSeq(sub, 1, Len(mp)) = mp
       /\ sub[Len(mp) + 1] = "/"

\* umount2(mp, MNT_DETACH) that succeeds: the mount and what is mounted
\* below it leave the table
Detach(tbl, mp) ==
    SelectSeq(tbl, LAMBDA id : ~AtOrBelow(SecondWord(MountLines[id]), mp))

IsMounted(tbl, mp) ==
    \E k \in 1..Len(tbl) : SecondWord(MountLines[tbl[k]]) = mp

\* umount2(mp, MNT_DETACH) in lazy_unmount (line 71): a detached unmount
\* does not wait for the mount to be idle; it fails when nothing is mounted
\* at mp any more.
UmountOk(tbl, mp) == IsMounted(tbl, mp)

\* the rule by which a pass selects a line: 109, 118 and 133
Selected(tag, line, cblock) ==
    CASE tag = "cache" -> IsCacheMount(line, cblock)
      [] tag = "tmpfs" -> IsTmpfsMount(line)
      [] tag = "loop"  -> IsLoopMount(line)

\* An unmount that is given up once an earlier attempt of the worker has
\* failed.  hide_daemon does not do that.
UnmountUnlessFailed(tbl, evs, tag, id) ==
    LET mp == SecondWord(MountLines[id])
        ok == UmountOk(tbl, mp)
    IN  IF \E i \in 1..Len(evs) : ~evs[i].ok
        THEN [tbl |-> tbl, ev |-> evs]
        ELSE [tbl |-> IF ok THEN Detach(tbl, mp) ELSE tbl,
              ev  |-> Append(evs, [pass |-> tag, line |-> id, ok |-> ok])]

\* lazy_unmount (lines 70-75) called for line id by the pass `tag`: one
\* umount2 of its mount point, whose outcome is logged and not returned
LazyUnmount(tbl, evs, tag, id) ==
    LET mp == SecondWord(MountLines[id])
        ok == UmountOk(tbl, mp)
    IN  [tbl |-> IF ok THEN Detach(tbl, mp) ELSE tbl,
         ev  |-> Append(evs, [pass |-> tag, line |-> id, ok |-> ok])]

\* One pass of vec_for_each over `list` (lines 108-113, 117-123, 132-138):
\* every selected line gets one lazy_unmount of its mount point.  The result
\* is the table left and the attempts made, in order; st is both on entry.
RECURSIVE RunPass(_, _, _, _, _)
RunPass(list, k, tag, cblock, st) ==
    IF k > Len(list) THEN st
    ELSE RunPass(list, k + 1, tag, cblock,
                 IF Selected(tag, MountLines[list[k]], cblock)
                 THEN LazyUnmount(st.tbl, st.ev, tag, list[k])
                 ELSE st)

Range(s) == {s[i] : i \in 1..Len(s)}

(***************************************************************************)
(* State.                                                                  *)
(***************************************************************************)
VARIABLES
    mon_pc,       \* where the proc_monitor thread is
    log,          \* char *log: index into LogLines, NULL when none is held
    pid,          \* int pid of the record being handled
    processName,  \* char processName[256]
    ns,           \* char ns[32], "uninit" until the first read succeeds
    idx,          \* position of vec_for_each in hide_list
    zi,           \* i of the for loop over zygote_ns (1-based)
    tmp,          \* the register ++hide_queue loads hide_queue into
    hide_lock,    \* "unlocked", "locked" or "destroyed"
    hide_list,    \* the names to hide
    hideEnabled,
    event_fd,     \* log_events[HIDE_EVENT].fd
    pipefd,
    hide_queue,
    has_cache,    \* the monitor process's copy
    cache_block,  \* the monitor process's copy
    init_ns,
    zygote_ns,
    zygote_num,
    zygotes,      \* the spawner processes: are they there, and in which ns
    zcur,         \* the spawner store_zygote_ns is called for, or "none"
    markers,      \* the marker paths that exist
    proc,         \* the candidate processes: state and mount namespace
    mounts,       \* the mount table of each candidate's namespace
    workers,      \* the hide_daemon processes forked so far
    pendingDone,  \* HIDE_DONE signals sent and not yet handled
    nread,        \* records read from the pipe
    sigstops,     \* history: SIGSTOPs delivered
    restores,     \* history: runs of the restore in hide_done
    nInc,         \* history: increments of hide_queue
    nDec,         \* history: decrements of hide_queue
    stopFailed    \* history: kill(pid, SIGSTOP) failed for this record

monVars  ==
    <<mon_pc, log, pid, processName, ns, idx, zi, tmp, stopFailed>>
listVars == <<hide_lock, hide_list, hideEnabled, event_fd, pipefd>>
zygVars  ==
    <<has_cache, cache_block, init_ns, zygote_ns, zygote_num, zygotes, zcur>>
histVars == <<sigstops, restores, nInc, nDec>>

vars == <<mon_pc, log, pid, processName, ns, idx, zi, tmp, hide_lock,
          hide_list, hideEnabled, event_fd, pipefd, hide_queue, has_cache,
          cache_block, init_ns, zygote_ns, zygote_num, zygotes, zcur,
          markers, proc, mounts, workers,
          pendingDone, nread, sigstops, restores, nInc, nDec, stopFailed>>

\* the pids of the processes that may exist
Pids == {5555}

\* mount namespace fingerprints
NsInit     == "mnt:[init]"
NsZygote   == "mnt:[zygote]"
NsZygote64 == "mnt:[zygote64]"
NsApp      == "mnt:[app]"
NsValues   == {NsZygote, NsZygote64, NsApp}

\* the processes ps_filter_proc_name is asked for (lines 179 and 181) and
\* the mount namespace each one has once it has left that of init
Spawners == {"zygote", "zygote64"}

OwnNs(z) == IF z = "zygote" THEN NsZygote ELSE NsZygote64

\* unlink() at lines 247-250 and xsymlink() at lines 45-47
Unlinked == {"/magisk", "/data/magisk", "/data/magisk.img", "MAGISKRC"}
Relinked == {"/data/magisk", "/data/magisk.img", "/magisk"}

\* the names the external control path may add or remove
HideNames == {AppNameUpper}

MonAlive == mon_pc \notin {"exited", "crashed"}

\* zygote_ns[0..zygote_num-1]
SpawnerSet == {zygote_ns[i] : i \in 1..zygote_num}

(***************************************************************************)
(* The state when proc_monitor enters its loop (line 198): the handlers    *)
(* are installed, the zygote namespaces are stored, the pipe is open.      *)
(***************************************************************************)
Init ==
    /\ mon_pc = "read"
    /\ log = NULL
    /\ pid = 0
    /\ processName = <<>>
    /\ ns = "uninit"
    /\ idx = 0
    /\ zi = 0
    /\ tmp = 0
    /\ hide_lock = "unlocked"
    /\ hide_list = <<AppName>>
    /\ hideEnabled = 1
    /\ pipefd = <<3, 4>>
    /\ event_fd = 4
    /\ hide_queue = 0
    /\ has_cache = 1
    /\ cache_block = <<>>
    /\ init_ns = NsInit
    /\ zcur = "none"
    /\ zygote_num \in {1, 2}
    /\ zygotes = [z \in Spawners |->
                    [st |-> IF z = "zygote64" /\ zygote_num = 1
                            THEN "absent" ELSE "alive",
                     ns |-> OwnNs(z)]]
    /\ zygote_ns = <<NsZygote, IF zygote_num = 2 THEN NsZygote64 ELSE "">>
    /\ markers = Unlinked
    /\ proc \in [Pids -> {[st |-> "running", ns |-> n, was |-> n # NsApp] :
                            n \in {zygote_ns[i] : i \in 1..zygote_num} \cup {NsApp}}]
    /\ mounts = [p \in Pids |-> FullTable]
    /\ workers = <<>>
    /\ pendingDone = 0
    /\ nread = 0
    /\ sigstops = 0
    /\ restores = 0
    /\ nInc = 0
    /\ nDec = 0
    /\ stopFailed = FALSE

(***************************************************************************)
(* proc_monitor, lines 198-266.                                            *)
(***************************************************************************)
\* line 199: read() returns a whole pointer
MonRead ==
    /\ mon_pc = "read"
    /\ nread < MaxNotif
    /\ \E l \in 1..Len(LogLines) : log' = l
    /\ nread' = nread + 1
    /\ mon_pc' = "parse"
    /\ UNCHANGED <<pid, processName, ns, idx, zi, tmp, stopFailed, listVars,
                   hide_queue, zygVars, markers, proc, mounts, workers,
                   pendingDone, histVars>>

\* Whether each line of the log has the '[' that line 204 looks for
HasBracket ==
    << StrChr(Rec7, "[", 1) # NULL, StrChr(Rec5, "[", 1) # NULL,
       StrChr(RecStart6, "[", 1) # NULL, StrChr(RecStart7, "[", 1) # NULL,
       StrChr(RecNoBracket, "[", 1) # NULL, StrChr(RecShort, "[", 1) # NULL >>

\* The outcome of lines 204-217 on each line of the log.  A line without '['
\* has none: MonParse settles that case before it looks here.
Parsed ==
    << ParseRecord(Rec7), ParseRecord(Rec5), ParseRecord(RecStart6),
       ParseRecord(RecStart7), NULL, ParseRecord(RecShort) >>

\* lines 204-222.  Without a '[' in the line, ss is NULL and strchr(NULL, ',')
\* is undefined: the process dies of it, or the build gets away with it and
\* sscanf matches nothing.
MonParse ==
    /\ mon_pc = "parse"
    /\ LET r == Parsed[log]
       IN  IF ~HasBracket[log]
           THEN \/ /\ mon_pc' = "crashed"
                   /\ log' = NULL
                   /\ UNCHANGED <<pid, processName, ns>>
                \/ /\ mon_pc' = "read"
                   /\ log' = NULL
                   /\ UNCHANGED <<pid, processName, ns>>
           ELSE IF r.ret # 2
           THEN /\ mon_pc' = "read"
                /\ log' = NULL
                /\ UNCHANGED <<pid, processName, ns>>
           ELSE /\ mon_pc' = "lock"
                /\ pid' = r.pid
                /\ processName' = r.name
                /\ ns' = "uninit"
                /\ UNCHANGED log
    /\ UNCHANGED <<idx, zi, tmp, stopFailed, listVars, hide_queue, zygVars,
                   markers, proc, mounts, workers, pendingDone, nread, histVars>>

\* line 225
MonLock ==
    /\ mon_pc = "lock"
    /\ hide_lock = "unlocked"
    /\ hide_lock' = "locked"
    /\ idx' = 1
    /\ mon_pc' = "scan"
    /\ UNCHANGED <<stopFailed, log, pid, processName, ns, zi, tmp, hide_list,
                   hideEnabled, event_fd, pipefd, hide_queue, zygVars,
                   markers, proc, mounts, workers, pendingDone, nread,
                   histVars>>

\* lines 226-227: one step of vec_for_each with its strcmp
MonScan ==
    /\ mon_pc = "scan"
    /\ IF idx > Len(hide_list)
       THEN mon_pc' = "unlock" /\ UNCHANGED <<idx, zi>>
       ELSE IF StrCmp(processName, hide_list[idx]) = 0
       THEN mon_pc' = "poll" /\ zi' = 1 /\ UNCHANGED idx
       ELSE mon_pc' = "scan" /\ idx' = idx + 1 /\ UNCHANGED zi
    /\ UNCHANGED <<stopFailed, log, pid, processName, ns, tmp, listVars,
                   hide_queue, zygVars, markers, proc, mounts, workers,
                   pendingDone, nread, histVars>>

\* read_namespace(p, ns), lines 52-59: the values ns can hold afterwards.
\* When /proc/p/ns/mnt is not there the buffer is left as it was, and a
\* buffer never written holds anything.
ReadNamespace(p, buf) ==
    IF p \in Pids /\ proc[p].st # "dead" THEN {proc[p].ns}
    ELSE IF buf = "uninit" THEN NsValues \cup {"garbage"}
    ELSE {buf}

\* strcmp(ns, zygote_ns[i]) at line 232; a fingerprint is taken as a whole
NsCmp(a, b) == IF a = b THEN 0 ELSE 1

\* A polling that were over as soon as the fingerprint equals an entry of
\* zygote_ns.  The monitor does not use it.
PollDoneOnMatch(matched, i) == matched

\* line 238 and the for loop's end: the polling is over when the
\* fingerprint compared last equals none of zygote_ns[0..zygote_num-1]
PollDone(matched, i) == ~matched /\ i >= zygote_num

\* lines 228-239: one read_namespace and its strcmp with zygote_ns[i]
MonPoll ==
    /\ mon_pc = "poll"
    /\ \E v \in ReadNamespace(pid, ns) :
          /\ ns' = v
          /\ IF PollDone(NsCmp(v, zygote_ns[zi]) = 0, zi)
             THEN mon_pc' = "stop" /\ UNCHANGED zi
             ELSE IF NsCmp(v, zygote_ns[zi]) = 0
             THEN mon_pc' = "poll" /\ zi' = 1
             ELSE mon_pc' = "poll" /\ zi' = IF zi < zygote_num THEN zi + 1 ELSE 1
    /\ UNCHANGED <<stopFailed, log, pid, processName, idx, tmp, listVars,
                   hide_queue, zygVars, markers, proc, mounts, workers,
                   pendingDone, nread, histVars>>

\* A lookup that went back to the entry it had matched.  The monitor does
\* not do that.
SameEntry(i) == i

\* the `continue` of line 242: vec_for_each goes on with the entry after
\* the one at position i
NextEntry(i) == i + 1

\* line 242: kill(pid, SIGSTOP); it fails when there is no such process
MonStop ==
    /\ mon_pc = "stop"
    /\ IF pid \in Pids /\ proc[pid].st # "dead"
       THEN /\ proc' = [proc EXCEPT ![pid].st = "stopped"]
            /\ sigstops' = sigstops + 1
            /\ mon_pc' = "unlink"
            /\ UNCHANGED <<idx, stopFailed>>
       ELSE /\ mon_pc' = "scan"
            /\ idx' = NextEntry(idx)
            /\ stopFailed' = TRUE
            /\ UNCHANGED <<proc, sigstops>>
    /\ UNCHANGED <<log, pid, processName, ns, zi, tmp, listVars, hide_queue,
                   zygVars, markers, mounts, workers, pendingDone, nread,
                   restores, nInc, nDec>>

\* lines 246-251
MonUnlink ==
    /\ mon_pc = "unlink"
    /\ markers' = markers \ Unlinked
    /\ mon_pc' = "inc_load"
    /\ UNCHANGED <<stopFailed, log, pid, processName, ns, idx, zi, tmp,
                   listVars, hide_queue, zygVars, proc, mounts, workers,
                   pendingDone, nread, histVars>>

\* line 252, ++hide_queue on a plain int: the load ...
MonIncLoad ==
    /\ mon_pc = "inc_load"
    /\ tmp' = hide_queue
    /\ mon_pc' = "inc_store"
    /\ UNCHANGED <<stopFailed, log, pid, processName, ns, idx, zi, listVars,
                   hide_queue, zygVars, markers, proc, mounts, workers,
                   pendingDone, nread, histVars>>

\* A store that puts back the value loaded.  The monitor does not use it.
NotIncremented(v) == v

\* line 252: the value ++hide_queue stores for the value v it loaded
Incremented(v) == v + 1

\* ... and the store
MonIncStore ==
    /\ mon_pc = "inc_store"
    /\ hide_queue' = Incremented(tmp)
    /\ tmp' = 0
    /\ nInc' = nInc + 1
    /\ mon_pc' = "fork"
    /\ UNCHANGED <<stopFailed, log, pid, processName, ns, idx, zi, listVars,
                   zygVars, markers, proc, mounts, workers, pendingDone,
                   nread, sigstops, restores, nDec>>

\* the child of fork_dont_care() at line 259: a copy of the monitor's memory
NewWorker(p) ==
    [pid |-> p, pc |-> "setns", has_cache |-> has_cache,
     cache_block |-> cache_block, inited |-> FALSE, mount_list |-> <<>>,
     ev |-> <<>>]

\* lines 258-262
MonFork ==
    /\ mon_pc = "fork"
    /\ workers' = Append(workers, NewWorker(pid))
    /\ mon_pc' = "unlock"
    /\ UNCHANGED <<stopFailed, log, pid, processName, ns, idx, zi, tmp,
                   listVars, hide_queue, zygVars, markers, proc, mounts,
                   pendingDone, nread, histVars>>

\* line 265, and free(log) of the for statement; the iteration's locals
\* (pid, processName, ns and the loop positions) go out of scope
MonUnlock ==
    /\ mon_pc = "unlock"
    /\ hide_lock' = "unlocked"
    /\ log' = NULL
    /\ pid' = 0
    /\ processName' = <<>>
    /\ ns' = "uninit"
    /\ idx' = 0
    /\ zi' = 0
    /\ stopFailed' = FALSE
    /\ mon_pc' = "read"
    /\ UNCHANGED <<tmp, hide_list, hideEnabled, event_fd, pipefd, hide_queue,
                   zygVars, markers, proc, mounts, workers, pendingDone, nread,
                   histVars>>

(***************************************************************************)
(* The signal handlers.  Both run on the monitor thread, which is the only *)
(* one that unblocks the two signals (lines 153-157), so they run only     *)
(* while that thread exists, between any two of its steps; when it is      *)
(* blocked in read() the read fails and the loop calls it again (199-203). *)
(***************************************************************************)
\* A handler that restored on every HIDE_DONE.  hide_done does not.
RestoreAlways(q) == TRUE

\* line 43
RestoreNow(q) == q = 0

\* hide_done, lines 41-50
HideDone ==
    /\ MonAlive
    /\ pendingDone > 0
    /\ pendingDone' = pendingDone - 1
    /\ hide_queue' = hide_queue - 1
    /\ nDec' = nDec + 1
    /\ IF RestoreNow(hide_queue')
       THEN markers' = markers \cup Relinked /\ restores' = restores + 1
       ELSE UNCHANGED <<markers, restores>>
    /\ UNCHANGED <<monVars, listVars, zygVars, proc, mounts, workers, nread,
                   sigstops, nInc>>

\* destroy_list(), line 28
DestroyList(list) == <<>>

\* term_thread, lines 26-39: TERM_THREAD can arrive at any time
TermThread ==
    /\ MonAlive
    /\ hide_list' = DestroyList(hide_list)
    /\ hideEnabled' = 0
    /\ event_fd' = -1
    /\ pipefd' = <<-1, -1>>
    /\ hide_lock' = "destroyed"
    /\ mon_pc' = "exited"
    /\ log' = NULL
    /\ pid' = 0
    /\ processName' = <<>>
    /\ ns' = "uninit"
    /\ idx' = 0
    /\ zi' = 0
    /\ tmp' = 0
    /\ stopFailed' = FALSE
    /\ UNCHANGED <<hide_queue, zygVars, markers, proc, mounts, workers,
                   pendingDone, nread, histVars>>

(***************************************************************************)
(* What is outside this file: the control path that adds and removes names *)
(* under hide_lock, and the candidate processes themselves.                *)
(***************************************************************************)
ExtMutate ==
    /\ hide_lock = "unlocked"
    /\ hideEnabled = 1
    /\ \E n \in HideNames :
          hide_list' = IF n \in Range(hide_list)
                       THEN SelectSeq(hide_list, LAMBDA e : e # n)
                       ELSE Append(hide_list, n)
    /\ UNCHANGED <<monVars, hide_lock, hideEnabled, event_fd, pipefd,
                   hide_queue, zygVars, markers, proc, mounts, workers,
                   pendingDone, nread, histVars>>

\* a process forked by zygote unshares its mount namespace
ProcUnshare(p) ==
    /\ proc[p].st = "running"
    /\ proc[p].ns \in SpawnerSet
    /\ proc' = [proc EXCEPT ![p].ns = NsApp]
    /\ UNCHANGED <<monVars, listVars, hide_queue, zygVars, markers, mounts,
                   workers, pendingDone, nread, histVars>>

\* a running process exits
ProcExit(p) ==
    /\ proc[p].st = "running"
    /\ proc' = [proc EXCEPT ![p].st = "dead"]
    /\ UNCHANGED <<monVars, listVars, hide_queue, zygVars, markers, mounts,
                   workers, pendingDone, nread, histVars>>

(***************************************************************************)
(* hide_daemon, lines 77-149, one process per fork.  What it does between  *)
(* joining the namespace and the exit label touches nothing but its own    *)
(* memory and the target's mount table, so it is taken as one step.        *)
(***************************************************************************)
WorkerUnchanged ==
    UNCHANGED <<monVars, listVars, hide_queue, zygVars, markers, nread,
                histVars>>

ReadEvent == [pass |-> "read", line |-> 0, ok |-> TRUE]

\* A loop pass on the vector of line 92.  hide_daemon does not use it.
KeepFirstRead(stale, now) == stale

\* lines 126-129: mount_list is read again from /proc/<pid>/mounts; `stale`
\* is the vector read at line 92, `now` what the file holds
SecondRead(stale, now) == now

\* Lines 90-138 on the table tbl of the target's namespace, for a worker
\* whose memory holds has_cache hc and cache_block cb.
HideRun(hc, cb, tbl) ==
    LET list1 == tbl
        find  == hc = 1 /\ Len(cb) = 0
        cb1   == IF find THEN FindCacheBlock(list1, 1) ELSE cb
        hc1   == IF find /\ Len(cb1) = 0 THEN 0 ELSE hc
        p1    == IF hc1 = 1
                 THEN RunPass(list1, 1, "cache", cb1,
                              [tbl |-> tbl, ev |-> <<ReadEvent>>])
                 ELSE [tbl |-> tbl, ev |-> <<ReadEvent>>]
        p2    == RunPass(list1, 1, "tmpfs", cb1, p1)
        list2 == SecondRead(list1, p2.tbl)
        p3    == RunPass(list2, 1, "loop", cb1,
                         [tbl |-> p2.tbl, ev |-> Append(p2.ev, ReadEvent)])
    IN  [tbl |-> p3.tbl, ev |-> p3.ev, has_cache |-> hc1, cache_block |-> cb1,
         mount_list |-> list2]

\* lines 84-138, up to the exit label
WHide(w) ==
    /\ workers[w].pc = "setns"
    /\ \/ \* switch_mnt_ns failed: goto exit
          /\ workers' = [workers EXCEPT ![w].pc = "cont"]
          /\ UNCHANGED mounts
       \/ /\ proc[workers[w].pid].st # "dead"
          /\ LET me == workers[w]
                 r  == HideRun(me.has_cache, me.cache_block, mounts[me.pid])
             IN  /\ workers' = [workers EXCEPT ![w] =
                       [pid |-> me.pid, pc |-> "cont", has_cache |-> r.has_cache,
                        cache_block |-> r.cache_block, inited |-> TRUE,
                        mount_list |-> r.mount_list, ev |-> r.ev]]
                 /\ mounts' = [mounts EXCEPT ![me.pid] = r.tbl]
    /\ UNCHANGED <<proc, pendingDone>>
    /\ WorkerUnchanged

\* line 142: kill(pid, SIGCONT)
WCont(w) ==
    /\ workers[w].pc = "cont"
    /\ proc' = [proc EXCEPT ![workers[w].pid].st =
                   IF @ = "stopped" THEN "running" ELSE @]
    /\ workers' = [workers EXCEPT ![w].pc = "destroy", ![w].ev = <<>>]
    /\ UNCHANGED <<mounts, pendingDone>>
    /\ WorkerUnchanged

\* what is left of a process after _exit or a fatal signal
Gone(me, how) ==
    [pid |-> me.pid, pc |-> how, has_cache |-> 1, cache_block |-> <<>>,
     inited |-> FALSE, mount_list |-> <<>>, ev |-> <<>>]

\* lines 144-148: vec_destroy(&mount_list), sleep, kill(ppid, HIDE_DONE),
\* _exit(0).  After `goto exit` from line 88 the vector was never
\* initialised and the free() of what it holds may kill the process before
\* the signal is sent.  A signal sent stays pending on the monitor's process
\* until the monitor thread takes it.
WFinish(w) ==
    /\ workers[w].pc = "destroy"
    /\ \/ /\ workers' = [workers EXCEPT ![w] = Gone(@, "exited")]
          /\ pendingDone' = IF mon_pc = "crashed" THEN pendingDone
                            ELSE pendingDone + 1
       \/ /\ ~workers[w].inited
          /\ workers' = [workers EXCEPT ![w] = Gone(@, "crashed")]
          /\ UNCHANGED pendingDone
    /\ UNCHANGED <<proc, mounts>>
    /\ WorkerUnchanged

WorkerStep(w) ==
    \/ WHide(w)
    \/ WCont(w)
    \/ WFinish(w)

(***************************************************************************)
(* The specifications.                                                     *)
(***************************************************************************)
\* the steps the monitor thread takes by itself once it holds a record
MonitorStep ==
    \/ MonParse
    \/ MonLock
    \/ MonScan
    \/ MonPoll
    \/ MonStop
    \/ MonUnlink
    \/ MonIncLoad
    \/ MonIncStore
    \/ MonFork
    \/ MonUnlock

Next ==
    \/ MonRead
    \/ MonitorStep
    \/ HideDone
    \/ TermThread
    \/ ExtMutate
    \/ \E p \in Pids : ProcUnshare(p)
    \/ \E p \in Pids : ProcExit(p)
    \/ \E w \in 1..Len(workers) : WHide(w)
    \/ \E w \in 1..Len(workers) : WCont(w)
    \/ \E w \in 1..Len(workers) : WFinish(w)

Spec == Init /\ [][Next]_vars

\* A thread or process that can take a step takes it; a pending signal is
\* delivered while the monitor thread lives.  Nothing obliges a record to
\* arrive, a candidate to unshare or exit, or TERM_THREAD to be sent.
FairSpec ==
    /\ Init
    /\ [][Next]_vars
    /\ WF_vars(MonitorStep)
    /\ WF_vars(HideDone)
    /\ \A w \in 1..MaxNotif : WF_vars(w <= Len(workers) /\ WorkerStep(w))


(***************************************************************************)
(* proc_monitor from its first line: lines 152-196, before the loop.       *)
(***************************************************************************)
StartupPcs == {"start", "find_zygote", "store", "find_zygote64", "open_pipe"}

\* The state at line 152.  The statics hold their initial values (lines
\* 22-23): the fingerprints are empty strings, the pipe is not open.
StartInit ==
    /\ mon_pc = "start"
    /\ log = NULL
    /\ pid = 0
    /\ processName = <<>>
    /\ ns = "uninit"
    /\ idx = 0
    /\ zi = 0
    /\ tmp = 0
    /\ stopFailed = FALSE
    /\ hide_lock = "unlocked"
    /\ hide_list = <<AppName>>
    /\ hideEnabled = 1
    /\ pipefd = <<-1, -1>>
    /\ event_fd = -1
    /\ hide_queue = 0
    /\ has_cache = 1
    /\ cache_block = <<>>
    /\ init_ns = ""
    /\ zygote_ns = <<"", "">>
    /\ zygote_num = 0
    /\ zcur = "none"
    /\ zygotes \in [Spawners -> {[st |-> s, ns |-> n] :
                       s \in {"alive", "absent"}, n \in {NsInit}}]
    /\ zygotes["zygote"].st = "alive"
    /\ markers = Unlinked
    /\ proc = [p \in Pids |-> [st |-> "running", ns |-> NsZygote, was |-> TRUE]]
    /\ mounts = [p \in Pids |-> FullTable]
    /\ workers = <<>>
    /\ pendingDone = 0
    /\ nread = 0
    /\ sigstops = 0
    /\ restores = 0
    /\ nInc = 0
    /\ nDec = 0

StartUnchanged ==
    UNCHANGED <<log, pid, processName, ns, idx, zi, tmp, stopFailed, hide_lock,
                hide_list, hideEnabled, hide_queue, has_cache, cache_block,
                markers, proc, mounts, workers, pendingDone, nread, histVars>>

\* lines 169-175: the fingerprint of init is read; without it the thread
\* ends itself by calling term_thread
StartReadInit ==
    /\ mon_pc = "start"
    /\ \/ /\ init_ns' = NsInit
          /\ zygote_num' = 0
          /\ mon_pc' = "find_zygote"
          /\ UNCHANGED <<zygote_ns, zygotes, zcur, event_fd, pipefd>>
          /\ StartUnchanged
       \/ TermThread

\* lines 176-180: ps_filter_proc_name("zygote", store_zygote_ns) finds the
\* process; while there is none the loop sleeps and looks again
FindZygote ==
    /\ mon_pc = "find_zygote"
    /\ zygotes["zygote"].st = "alive"
    /\ zcur' = "zygote"
    /\ mon_pc' = "store"
    /\ UNCHANGED <<init_ns, zygote_ns, zygote_num, zygotes, event_fd, pipefd>>
    /\ StartUnchanged

\* line 181: the same for "zygote64", once
FindZygote64 ==
    /\ mon_pc = "find_zygote64"
    /\ IF zygotes["zygote64"].st = "alive"
       THEN zcur' = "zygote64" /\ mon_pc' = "store"
       ELSE zcur' = "none" /\ mon_pc' = "open_pipe"
    /\ UNCHANGED <<init_ns, zygote_ns, zygote_num, zygotes, event_fd, pipefd>>
    /\ StartUnchanged

\* read_namespace(pid, zygote_ns[zygote_num], 32), lines 52-59, for the pid
\* of spawner z: the values the buffer can hold afterwards.  A failed read
\* writes nothing.
ReadSpawnerNs(z, buf) ==
    IF zygotes[z].st = "alive" THEN {zygotes[z].ns} ELSE {buf}

\* store_zygote_ns, lines 61-68: one round of the do-while
StoreZygoteNs ==
    /\ mon_pc = "store"
    /\ zygote_num < 2
    /\ \E v \in ReadSpawnerNs(zcur, zygote_ns[zygote_num + 1]) :
          /\ zygote_ns' = [zygote_ns EXCEPT ![zygote_num + 1] = v]
          /\ IF NsCmp(v, init_ns) = 0
             THEN UNCHANGED <<zygote_num, zcur, mon_pc>>
             ELSE /\ zygote_num' = zygote_num + 1
                  /\ zcur' = "none"
                  /\ mon_pc' = IF zcur = "zygote" THEN "find_zygote64"
                               ELSE "open_pipe"
    /\ UNCHANGED <<init_ns, zygotes, event_fd, pipefd>>
    /\ StartUnchanged

\* lines 195-196
OpenPipe ==
    /\ mon_pc = "open_pipe"
    /\ pipefd' = <<3, 4>>
    /\ event_fd' = 4
    /\ mon_pc' = "read"
    /\ UNCHANGED <<init_ns, zygote_ns, zygote_num, zygotes, zcur>>
    /\ StartUnchanged

\* a spawner leaves the mount namespace of init
SpawnerUnshare(z) ==
    /\ mon_pc \in StartupPcs
    /\ zygotes[z].st = "alive"
    /\ zygotes[z].ns = NsInit
    /\ zygotes' = [zygotes EXCEPT ![z].ns = OwnNs(z)]
    /\ UNCHANGED <<mon_pc, init_ns, zygote_ns, zygote_num, zcur, event_fd,
                   pipefd>>
    /\ StartUnchanged

\* a spawner dies
SpawnerExit(z) ==
    /\ mon_pc \in StartupPcs
    /\ zygotes[z].st = "alive"
    /\ zygotes' = [zygotes EXCEPT ![z].st = "dead"]
    /\ UNCHANGED <<mon_pc, init_ns, zygote_ns, zygote_num, zcur, event_fd,
                   pipefd>>
    /\ StartUnchanged

StartNext ==
    \/ StartReadInit
    \/ FindZygote
    \/ FindZygote64
    \/ StoreZygoteNs
    \/ OpenPipe
    \/ \E z \in Spawners : SpawnerUnshare(z)
    \/ \E z \in Spawners : SpawnerExit(z)
    \/ Next

\* the whole of proc_monitor
StartSpec == StartInit /\ [][StartNext]_vars
(***************************************************************************)
(* Properties.                                                             *)
(***************************************************************************)
Frozen(p) == proc[p].st = "stopped"

\* the monitor is between a delivered SIGSTOP and the fork of the worker
MidFreeze == mon_pc \in {"unlink", "inc_load", "inc_store", "fork"}

\* the monitor is past the polling of lines 228-239 for the current record
PastPoll == mon_pc = "stop" \/ MidFreeze

InHideList(name) == \E k \in 1..Len(hide_list) : hide_list[k] = name

\* C1: every target that has been stopped by the monitor's SIGSTOP is
\* eventually sent SIGCONT, in every execution, whatever fails in between:
\* no target stays stopped for ever.
C1_FrozenIsResumed == \A p \in Pids : Frozen(p) ~> ~Frozen(p)

\* C2: a step that delivers a SIGSTOP, deletes a marker, increments
\* hide_queue or forks a worker is taken only for a record whose process
\* name equals, character for character, an entry hide_list holds then.
C2_NoMatchNoFreeze ==
    [][ (\/ sigstops' # sigstops
         \/ markers' # markers /\ markers' \subseteq markers
         \/ nInc' # nInc
         \/ Len(workers') # Len(workers))
        => InHideList(processName) ]_vars

\* a lookup has ended for a name that differs from a listed one only in
\* the case of a letter, and nothing was stopped or forked
C2_Witness ==
    /\ mon_pc = "unlock"
    /\ processName = AppNameUpper
    /\ InHideList(AppName)
    /\ ~InHideList(AppNameUpper)
    /\ sigstops = 0
    /\ Len(workers) = 0

AllWorkersReported == \A w \in 1..Len(workers) : workers[w].pc = "exited"

\* C4: once every worker forked has sent HIDE_DONE and every HIDE_DONE sent
\* has been handled, hide_queue is 0 (the monitor not being between an
\* increment and the fork it is made for).
C4_DrainsToZero ==
    (/\ MonAlive
     /\ mon_pc # "fork"
     /\ Len(workers) > 0
     /\ AllWorkersReported
     /\ pendingDone = 0)
    => hide_queue = 0

C6_NonNegative == hide_queue >= 0 /\ nDec <= nInc

\* a decrement has been made
C6_Witness == nDec >= 1 /\ hide_queue = 0

\* the fields between '[' and the end of the line, split at the commas
RECURSIVE SplitAtCommas(_, _, _, _)
SplitAtCommas(s, p, cur, acc) ==
    IF p > Len(s) THEN Append(acc, cur)
    ELSE IF s[p] = "," THEN SplitAtCommas(s, p + 1, <<>>, Append(acc, cur))
    ELSE SplitAtCommas(s, p + 1, Append(cur, s[p]), acc)

FieldsOf(line) == SplitAtCommas(line, StrChr(line, "[", 1) + 1, <<>>, <<>>)

\* the first word of a field, and its value as a number
WordOf(field) == ScanStr(field, 1, Len(field) + 1).val
NumberOf(field) == DecValue(WordOf(field), 1, Len(WordOf(field)) + 1)

IsExample(line) == line = Rec7 \/ line = Rec5

PassRank(tag) ==
    CASE tag = "cache" -> 1 [] tag = "tmpfs" -> 2 [] tag = "loop" -> 3
      [] OTHER -> 0

MountPoint(id) == SecondWord(MountLines[id])

\* C8: in the attempts of one worker, those of the cache pass come before
\* those of the tmpfs pass and these before those of the loop pass; every
\* attempt is for a line its pass selects; the mount table is read between
\* the last tmpfs attempt and the first loop attempt, and the loop pass
\* attempts nothing that an earlier unmount has already detached.
C8_PassOrder ==
    \A w \in 1..Len(workers) :
        LET ev == workers[w].ev
            at(i) == ev[i].pass # "read"
        IN  \A i \in 1..Len(ev) : \A j \in i..Len(ev) :
               (at(i) /\ at(j)) =>
                  /\ PassRank(ev[i].pass) <= PassRank(ev[j].pass)
                  /\ Selected(ev[i].pass, MountLines[ev[i].line],
                              workers[w].cache_block)
                  /\ (ev[i].pass # "loop" /\ ev[j].pass = "loop") =>
                        /\ \E k \in i..j : ev[k].pass = "read"
                        /\ ev[i].ok => ~AtOrBelow(MountPoint(ev[j].line),
                                                  MountPoint(ev[i].line))

\* a worker has made attempts in all three passes, one of them failed
C8_Witness ==
    \E w \in 1..Len(workers) :
        /\ workers[w].pc = "cont"
        /\ \A t \in {"cache", "tmpfs", "loop"} :
              \E i \in 1..Len(workers[w].ev) : workers[w].ev[i].pass = t
        /\ \E i \in 1..Len(workers[w].ev) : ~workers[w].ev[i].ok

\* C9: TERM_THREAD taken while the monitor is blocked in read() empties
\* hide_list, clears hideEnabled, deregisters and closes the pipe and ends
\* the thread in that one handler run; afterwards nothing is stopped or
\* forked; and every worker forked before still resumes its target, sends
\* HIDE_DONE and exits.
C9_CancelAtRead ==
    /\ [][ (mon_pc = "read" /\ mon_pc' = "exited") =>
              /\ hide_list' = <<>>
              /\ hideEnabled' = 0
              /\ event_fd' = -1
              /\ pipefd' = <<-1, -1>> ]_vars
    /\ [][ mon_pc = "exited" =>
              /\ mon_pc' = "exited"
              /\ sigstops' = sigstops
              /\ Len(workers') = Len(workers) ]_vars
    /\ \A w \in 1..MaxNotif :
          [](mon_pc = "exited" /\ w <= Len(workers)
             => <>(w <= Len(workers) /\ workers[w].pc = "exited"))

\* the parser gets no pid and name from the line
Malformed(line) ==
    StrChr(line, "[", 1) = NULL \/ ParseRecord(line).ret # 2

\* C10: a step of the parser on a malformed record drops it: the buffer is
\* released, hide_lock is not taken, no process is signalled, and the
\* monitor is back at read().
C10_MalformedDropped ==
    [][ (/\ mon_pc = "parse"
         /\ Malformed(LogLines[log])
         /\ mon_pc' \notin {"parse", "exited"})
        => /\ mon_pc' = "read"
           /\ log' = NULL
           /\ hide_lock' = hide_lock
           /\ proc' = proc
           /\ sigstops' = sigstops ]_vars


\* the monitor is in the part of its loop that comes after the name has
\* been found in hide_list: polling, stopping, unlinking, counting, forking
AfterLookup == mon_pc \in {"poll", "stop"} \/ MidFreeze

\* C11: hide_lock is held for the lookup only; the monitor does not hold it
\* while it polls the namespace, sends SIGSTOP, unlinks the markers,
\* increments hide_queue or forks.
C11_LockForLookupOnly == AfterLookup => hide_lock # "locked"

\* worker w has found the cache block and holds its name
Recorded(w) == workers[w].inited /\ Len(workers[w].cache_block) > 0

\* C12: a worker forked after some worker has recorded the cache block
\* starts with that name in cache_block, and so does not look for it again.
C12_CacheBlockReused ==
    [][ \A w \in 1..Len(workers) :
           (Len(workers') = Len(workers) + 1 /\ Recorded(w))
           => workers'[Len(workers')].cache_block = workers[w].cache_block ]_vars

\* C13: the polling of lines 228-239 ends, also for a candidate that has
\* exited: the monitor does not stay in it for ever.
C13_PollEnds ==
    \A p \in Pids :
        (mon_pc = "poll" /\ pid = p /\ proc[p].st = "dead") ~> (mon_pc # "poll")

\* C14: every worker sends SIGCONT before it ends, and ends by sending one
\* HIDE_DONE to the monitor's process and exiting: no worker ends in any
\* other way, whether or not it joined the namespace and whether or not
\* the monitor thread has been cancelled.
C14_WorkerReports ==
    [][ \A w \in 1..Len(workers) :
           /\ (workers[w].pc = "cont") => (workers'[w].pc \in {"cont", "destroy"})
           /\ (workers[w].pc = "destroy" /\ workers'[w].pc # "destroy"
                  /\ mon_pc # "crashed")
              => /\ workers'[w].pc = "exited"
                 /\ pendingDone' = pendingDone + 1 ]_vars

\* C15: once kill(pid, SIGSTOP) has failed for a record, the monitor only
\* finishes the lookup: it polls no namespace and sends no signal again,
\* unlinks no marker, does not increment hide_queue and forks nothing for
\* that record, and the next thing it does after the lookup is to unlock
\* hide_lock and go back to read().
C15_AbandonOnFailedStop ==
    /\ [](stopFailed => (mon_pc \in {"scan", "unlock"} /\ hide_lock = "locked"))
    /\ [][ stopFailed =>
              /\ sigstops' = sigstops
              /\ nInc' = nInc
              /\ Len(workers') = Len(workers)
              /\ markers \subseteq markers'
              /\ hide_queue' <= hide_queue ]_vars
    /\ [][ (stopFailed /\ ~stopFailed') =>
              \/ mon_pc' = "read" /\ hide_lock' = "unlocked"
              \/ mon_pc' = "exited" ]_vars

\* the lookup is over for a record whose candidate had exited before the
\* SIGSTOP: nothing was stopped and nothing forked
C15_Witness ==
    /\ stopFailed
    /\ mon_pc = "unlock"
    /\ pid \in Pids
    /\ proc[pid].st = "dead"
    /\ sigstops = 0
    /\ Len(workers) = 0

\* worker w is past line 88 by the `goto exit` and has not exited
JoinFailed(w) ==
    ~workers[w].inited /\ workers[w].pc \in {"cont", "destroy", "crashed"}

\* C16: a worker that could not join the namespace has read no mount table
\* and attempted no unmount, and goes on to SIGCONT and HIDE_DONE: it does
\* not end before it has sent them.
C16_JoinFailureSkips ==
    \A w \in 1..Len(workers) :
        JoinFailed(w) =>
            /\ workers[w].ev = <<>>
            /\ workers[w].mount_list = <<>>
            /\ workers[w].pc # "crashed"

\* the lines a pass attempted, in the order of the attempts
RECURSIVE AttemptsOf(_, _)
AttemptsOf(ev, tag) ==
    IF ev = <<>> THEN <<>>
    ELSE (IF Head(ev).pass = tag THEN <<Head(ev).line>> ELSE <<>>)
         \o AttemptsOf(Tail(ev), tag)

\* the lines of a mount list that the rule of a pass selects, in order
RECURSIVE SelectedOf(_, _, _)
SelectedOf(list, tag, cblock) ==
    IF list = <<>> THEN <<>>
    ELSE (IF Selected(tag, MountLines[Head(list)], cblock)
          THEN <<Head(list)>> ELSE <<>>)
         \o SelectedOf(Tail(list), tag, cblock)

\* C17: a worker that has joined the namespace attempts, in each pass, every
\* line its rule selects in the list the pass goes through, once each and
\* in the order of the list, whether earlier attempts failed or not: the
\* cache and tmpfs passes in the list read first, the loop pass in the list
\* read again.
C17_OneAttemptEach ==
    [][ \A w \in 1..Len(workers) :
           (workers[w].pc = "setns" /\ workers'[w].pc = "cont"
               /\ workers'[w].inited)
           => LET me    == workers'[w]
                  list1 == mounts[me.pid]
              IN  /\ AttemptsOf(me.ev, "cache") =
                        IF me.has_cache = 1
                        THEN SelectedOf(list1, "cache", me.cache_block)
                        ELSE <<>>
                  /\ AttemptsOf(me.ev, "tmpfs") =
                        SelectedOf(list1, "tmpfs", me.cache_block)
                  /\ AttemptsOf(me.ev, "loop") =
                        SelectedOf(me.mount_list, "loop", me.cache_block) ]_vars

\* a worker went on to a later attempt after one that failed
C17_Witness ==
    \E w \in 1..Len(workers) :
        /\ workers[w].pc = "cont"
        /\ \E i \in 1..Len(workers[w].ev) : \E j \in (i + 1)..Len(workers[w].ev) :
              /\ ~workers[w].ev[i].ok
              /\ workers[w].ev[j].pass = "loop"
              /\ workers[w].ev[j].ok

\* the monitor is in its loop, reading or handling a record
Consuming == MonAlive /\ mon_pc \notin StartupPcs

\* C18: from the first read() on, zygote_num is 1 or 2, every fingerprint
\* of zygote_ns[0..zygote_num-1] is one that a spawner has and is not the
\* fingerprint of init, two of them differ, and none is changed again.
C18_SpawnerSetRead ==
    /\ [](Consuming =>
            /\ zygote_num \in {1, 2}
            /\ \A i \in 1..zygote_num :
                  /\ zygote_ns[i] \in {OwnNs(z) : z \in Spawners}
                  /\ zygote_ns[i] # init_ns
            /\ zygote_num = 2 => zygote_ns[1] # zygote_ns[2])
    /\ [][ Consuming => (zygote_ns' = zygote_ns /\ zygote_num' = zygote_num) ]_vars

\* worker w has been forked and has not yet sent HIDE_DONE
InFlight(w) == workers[w].pc \in {"setns", "cont", "destroy"}

\* C19: while a worker is in flight none of the markers exists.
C19_MarkersAbsentInFlight ==
    (\E w \in 1..Len(workers) : InFlight(w)) => (markers \cap Relinked = {})

\* C20: TERM_THREAD is handled only where hide_lock is unlocked and no
\* target has been stopped and not yet given its worker.
C20_SafeTeardown ==
    [][ (MonAlive /\ mon_pc' = "exited")
        => (hide_lock = "unlocked" /\ ~MidFreeze) ]_vars
=============================================================================
